---- MODULE Spec2Model ----
(***************************************************************************)
(* Voice Harbor client (src/python/client.py): the end-to-end run of       *)
(* main() -- create job, upload the input files through a pool of five     *)
(* workers, upload the parameter file, poll for and download the result    *)
(* pairs through a second pool of five workers.                            *)
(*                                                                         *)
(* Three specifications share the module:                                  *)
(*   Spec      the run of main(), every HTTP call of every worker a step;  *)
(*   WaitSpec  one call of wait_for_file, with its clock and a record of   *)
(*             what the call did;                                          *)
(*   PoolSpec  the two ThreadPoolExecutor batches with more items than     *)
(*             workers, a task body reduced to its start and its end.      *)
(* A variable a specification does not use keeps its initial value.        *)
(***************************************************************************)
EXTENDS Integers, Sequences, FiniteSets

\* ------------------------------------------------------------------ bounds
\* Number of entries of the input directory of a run (Spec).
MaxFiles == 2
\* Largest --timeout / timeout argument, in seconds.
MaxTimeout == 3
\* Largest --interval / interval argument, in seconds.
MaxInterval == 2
\* Longest time, in seconds, one finalized check takes (request to response).
MaxDelay == 1
\* Latest clock reading at which a wait_for_file call starts (WaitSpec).
MaxStart == 1
\* The --timeout and --interval arguments of a whole run (Spec) and the time
\* a finalized check of the run takes, in seconds: enough for a wait to end
\* at its first, at a later, or at no check.  WaitSpec explores the timing of
\* one call over the wider ranges above.
RunTimeouts == {2}
RunIntervals == {1}
RunDelays == {0}
\* Number of work items handed to one executor (PoolSpec), and of names in
\* the longest download batch (BatchSpec).
MaxItems == 6
\* Largest number of names given to --agents (ParamSpec).
MaxAgents == 2

\* ------------------------------------------------------- program constants
\* ThreadPoolExecutor(max_workers=5), in submit_files and download_results.
MaxWorkers == 5

\* ------------------------------------------------------------- file names
\* A file name is the sequence of its characters.
UpperChars == <<"A", "B", "C", "D", "E", "F", "G", "H", "I", "J", "K", "L", "M",
                "N", "O", "P", "Q", "R", "S", "T", "U", "V", "W", "X", "Y", "Z">>

LowerChars == <<"a", "b", "c", "d", "e", "f", "g", "h", "i", "j", "k", "l", "m",
                "n", "o", "p", "q", "r", "s", "t", "u", "v", "w", "x", "y", "z">>

\* A character compared as it is: the comparison is case-sensitive.
LowerCharIdentity(c) == c

\* str.lower, ${ext,,}: one character.
LowerChar(c) ==
    IF \E k \in DOMAIN UpperChars : UpperChars[k] = c
    THEN LowerChars[CHOOSE k \in DOMAIN UpperChars : UpperChars[k] = c]
    ELSE c

Lower(s) == [k \in DOMAIN s |-> LowerChar(s[k])]

\* str.rfind("."), counted from 1: the place of the last dot, 0 without one.
RFindDot(s) ==
    LET D == {k \in DOMAIN s : s[k] = "."}
    IN  IF D = {} THEN 0 ELSE CHOOSE k \in D : \A j \in D : j <= k

\* pathlib: the suffix of a name starts at its last dot, unless that dot is
\* the first or the last character of the name; the stem is what precedes it.
HasSuffix(n) == 1 < RFindDot(n) /\ RFindDot(n) < Len(n)

PySuffix(n) == IF HasSuffix(n) THEN SubSeq(n, RFindDot(n), Len(n)) ELSE <<>>

PyStem(n) == IF HasSuffix(n) THEN SubSeq(n, 1, RFindDot(n) - 1) ELSE n

\* Line 39.
SUPPORTED_FORMATS ==
    {<<".", "w", "a", "v">>, <<".", "m", "p", "3">>, <<".", "f", "l", "a", "c">>,
     <<".", "o", "g", "g">>, <<".", "m", "4", "a">>, <<".", "y", "a", "m", "l">>}

\* An entry of the input directory: its name, and whether is_file() holds.
File(n) == [name |-> n, is_file |-> TRUE]

Subdir(n) == [name |-> n, is_file |-> FALSE]

\* The entries an input directory is made of: two inputs that share a stem,
\* an upper-case suffix, a hidden file, a suffix off the list, a directory
\* named like an audio file, and a name without a suffix.
DirListing ==
    <<File(<<"a", ".", "w", "a", "v">>),
      File(<<"a", ".", "m", "p", "3">>),
      File(<<"b", ".", "W", "A", "V">>),
      File(<<".", "c", ".", "y", "a", "m", "l">>),
      File(<<"d", ".", "t", "x", "t">>),
      Subdir(<<"e", ".", "w", "a", "v">>),
      File(<<"w", "a", "v">>)>>

\* Lines 189-192: the entries of the directory that are files with a
\* supported suffix, in the order of iterdir(); each stands for its name.
Supported(e) == e.is_file /\ Lower(PySuffix(e.name)) \in SUPPORTED_FORMATS

parse_files(dir) ==
    LET files == SelectSeq(dir, Supported)
    IN  [k \in DOMAIN files |-> files[k].name]

\* download_pair: base_name = Path(file_name).stem; f"{base_name}.json"
JsonName(f) == PyStem(f) \o <<".", "j", "s", "o", "n">>

Arts == {"file", "json"}

\* ------------------------------------------------------------------- YAML
\* A Python value: its type and, for a str, its characters; for a list, its
\* items; for a dict, the function from its keys; for a value read from a
\* plain scalar that is no string, the text it was read from.
PyStr(s) == [type |-> "str", val |-> s]

PyList(items) == [type |-> "list", val |-> items]

PyDict(d) == [type |-> "dict", val |-> d]

PyNone == [type |-> "null", val |-> <<>>]

\* yaml.safe_load, or read_text before it, raised.
LoadError == [type |-> "error", val |-> <<>>]

Digits == {"0", "1", "2", "3", "4", "5", "6", "7", "8", "9"}

NullWords == {<<"~">>, <<"n", "u", "l", "l">>}

BoolWords == {<<"y", "e", "s">>, <<"n", "o">>, <<"t", "r", "u", "e">>,
              <<"f", "a", "l", "s", "e">>, <<"o", "n">>, <<"o", "f", "f">>}

\* The implicit resolvers of the safe loader: the type a plain scalar of this
\* text is read as (decimal integers and the lower-case words of YAML 1.1).
IsInt(s) ==
    LET body == IF s # <<>> /\ s[1] \in {"-", "+"} THEN Tail(s) ELSE s
    IN  body # <<>> /\ \A k \in DOMAIN body : body[k] \in Digits

Resolve(s) ==
    IF s = <<>> \/ s \in NullWords THEN "null"
    ELSE IF s \in BoolWords THEN "bool"
    ELSE IF IsInt(s) THEN "int"
    ELSE "str"

Indicators == {"#", ",", "[", "]", "{", "}", "&", "*", "!", "|", ">", "'",
               "%", "@"}

\* The emitter's analysis of a scalar: whether its text can stand unquoted.
PlainAllowed(s) ==
    /\ s # <<>>
    /\ s[1] \notin Indicators \cup {" "}
    /\ s[Len(s)] # " "
    /\ ~(s[1] \in {"-", "?", ":"} /\ (Len(s) = 1 \/ s[2] = " "))
    /\ \A k \in DOMAIN s :
          /\ ~(s[k] = ":" /\ (k = Len(s) \/ s[k + 1] = " "))
          /\ ~(s[k] = "#" /\ k > 1 /\ s[k - 1] = " ")

\* Every string written unquoted.
ScalarStylePlain(s) == "plain"

\* safe_dump writes a string unquoted only when it would be read back as that
\* string; otherwise in single quotes.
ScalarStyle(s) == IF Resolve(s) = "str" /\ PlainAllowed(s) THEN "plain" ELSE "single"

\* A line of a block-style document: "key:", "- scalar", "key: scalar",
\* "key: []", or a line that is no YAML.
Line(kind, key, s) == [kind |-> kind, key |-> key, style |-> ScalarStyle(s), text |-> s]

NotYaml == [kind |-> "garbage", key |-> "", style |-> "plain", text |-> <<>>]

\* A list value under its key: "key: []" when empty, else "key:" and one
\* "- item" line per item.
DumpList(key, list) ==
    IF list = <<>> THEN <<Line("empty", key, <<>>)>>
    ELSE <<Line("key", key, <<>>)>> \o [k \in DOMAIN list |-> Line("item", "", list[k])]

\* Line 293: yaml.safe_dump(job_parameters, default_flow_style=False): the
\* keys in sorted order.
Dump(rec) ==
    DumpList("agents", rec.agents) \o DumpList("files", rec.files)
       \o (IF "prefix" \in DOMAIN rec THEN <<Line("pair", "prefix", rec.prefix)>> ELSE <<>>)

\* The value of the scalar of a line: a quoted scalar is a string, a plain
\* one what the resolvers make of it.
LoadScalar(l) ==
    IF l.style = "plain" /\ Resolve(l.text) # "str"
    THEN [type |-> Resolve(l.text), val |-> l.text]
    ELSE PyStr(l.text)

Put(d, key, v) == [x \in DOMAIN d \cup {key} |-> IF x = key THEN v ELSE d[x]]

RECURSIVE LoadLines(_, _, _, _)
LoadLines(doc, k, d, cur) ==
    IF k > Len(doc) THEN PyDict(d)
    ELSE LET l == doc[k]
         IN  CASE l.kind = "key" -> LoadLines(doc, k + 1, Put(d, l.key, PyNone), l.key)
               [] l.kind = "empty" -> LoadLines(doc, k + 1, Put(d, l.key, PyList(<<>>)), "")
               [] l.kind = "pair" -> LoadLines(doc, k + 1, Put(d, l.key, LoadScalar(l)), "")
               [] l.kind = "item" /\ cur # "" ->
                     LoadLines(doc, k + 1,
                               Put(d, cur, PyList(Append(IF d[cur].type = "list"
                                                         THEN d[cur].val ELSE <<>>,
                                                         LoadScalar(l)))),
                               cur)
               [] OTHER -> LoadError

\* Line 411: yaml_module.safe_load(text): None for an empty document.
Load(doc) ==
    IF doc = <<>> THEN PyNone ELSE LoadLines(doc, 1, [x \in {} |-> PyNone], "")

\* The name download_pair passes to download_file for each artifact.
ArtName(f, a) == IF a = "file" THEN f ELSE JsonName(f)

VARIABLES
    pc,           \* main(): the statement main is at
    input_files,  \* client.input_files, in directory order
    timeout,      \* args.timeout
    interval,     \* args.interval
    job_params,   \* the job_params dict of main
    job_file,     \* <<>>, or <<the record written to {job_id}.yaml>>
    up,           \* submit_files: the futures, in submission order
    dl,           \* download_results: the futures, in submission order
    downloaded,   \* download_results: the dict `downloaded`
    wf,           \* WaitSpec: the frame of the wait_for_file call
    hist,         \* WaitSpec: what the call has done so far
    pool,         \* PoolSpec: the executor and its items
    job_id,       \* main(): "none", or the job_id create_job returned
    inputs_dir,   \* the entries of the directory --inputs-dir names
    sh,           \* the curl client: the variables of the script
    args,         \* args.agents and args.prefix
    dr            \* download_results: its yaml argument, the text of the file
                  \* it names, and the locals job_data and file_names

vars == <<pc, input_files, timeout, interval, job_params, job_file,
          up, dl, downloaded, wf, hist, pool, job_id, inputs_dir, sh, args, dr>>

\* ----------------------------------------------------------- wait_for_file
\* What one POST to .../files/finalized can come back with.
Responses == {"exists_true", "exists_false", "exists_missing",
              "network_error", "http_error", "malformed_body"}

\* Lines 340-343: session.post raises on a network error, raise_for_status
\* on a non-2xx, response.json on a malformed body; data.get("exists", False)
\* is truthy only for exists=true.
CheckResult(resp) ==
    IF resp \in {"network_error", "http_error", "malformed_body"} THEN "raised"
    ELSE IF resp = "exists_true" THEN "true"
    ELSE "false"

\* Line 336: start_time = time.time(); the call is at the head of its loop.
WaitEnter(now) == [pcw |-> "test", start_time |-> now, now |-> now]

\* The loop test with the start of the call forgotten.
LoopCondNoStart(w, t) == w.now < t

\* The loop test letting a check start with the timeout just reached.
LoopCondInclusive(w, t) == w.now - w.start_time <= t

\* Line 337: time.time() - start_time < timeout
LoopCond(w, t) == w.now - w.start_time < t

\* Line 337 then 338 or 351-352: enter the loop body, or log and return False.
WaitTest(w, t) ==
    IF LoopCond(w, t) THEN [w EXCEPT !.pcw = "check"]
    ELSE [w EXCEPT !.pcw = "false"]

\* The handler with the exception let through to the caller.
OnCheckErrorRaises(w) == [w EXCEPT !.pcw = "raised"]

\* Lines 348-349: except Exception: log; control falls through to the sleep.
OnCheckError(w) == [w EXCEPT !.pcw = "sleep"]

\* The answer handled with the return moved after the sleep: exists=true is
\* only noticed by the next iteration.
OnCheckAnswerSleeps(w, exists) == [w EXCEPT !.pcw = "sleep"]

\* Lines 343-347: return True at once, or log and fall through to the sleep.
OnCheckAnswer(w, exists) ==
    IF exists THEN [w EXCEPT !.pcw = "true"] ELSE [w EXCEPT !.pcw = "sleep"]

\* Lines 338-349: one finalized check that took d seconds.
WaitCheck(w, resp, d) ==
    LET w1 == [w EXCEPT !.now = @ + d]
    IN  IF CheckResult(resp) = "raised" THEN OnCheckError(w1)
        ELSE OnCheckAnswer(w1, CheckResult(resp) = "true")

\* A sleep during which no time passes.
WaitSleepNoTime(w, i) == [w EXCEPT !.pcw = "test"]

\* Line 350: time.sleep(interval), then back to the head of the loop.
WaitSleep(w, i) == [w EXCEPT !.pcw = "test", !.now = @ + i]

\* --------------------------------------------------------------- WaitSpec
\* One call wait_for_file(name, timeout, interval) on its own.
NoHist == [checks |-> 0, sleeps |-> 0, trues |-> 0, errors |-> 0,
           delayed |-> FALSE, last |-> "enter", at |-> 0]

NoWait == [pcw |-> "idle", start_time |-> 0, now |-> 0]

\* The empty dict.
EmptyDict == [k \in {} |-> <<>>]

\* Lines 460-461: the defaults of --agents and --prefix.
DefaultArgs ==
    [agents |-> <<<<"h", "e", "a", "l", "t", "h", "-", "g", "e", "n", "e", "r", "i", "c">>,
                  <<"c", "l", "i", "n", "i", "c", "a", "l">>>>,
     prefix |-> <<>>]

\* download_results not yet called: no yaml argument, and what the path of
\* a yaml argument would name: whether a file is there, and its text.
NoFile == [exists |-> FALSE, text |-> <<>>]

NoCall == [yaml |-> "None", file |-> NoFile, job_data |-> PyNone, file_names |-> <<>>]

\* The curl client before its first line: its variables, the line it is at
\* (pc), the place of the upload loop in the glob (k), of the poll loop in
\* FILES (i) and of the download loop in its two targets (t), and what the
\* script has done: the names it PUT, the names a finalized check was issued
\* for, was answered exists=true for, timed out for, and the <<name, target>>
\* pairs a download URL was requested for and curl wrote to the output dir.
ShIdle == [pc |-> "idle", JOB_ID |-> "none", k |-> 1, FILES |-> <<>>,
           UP_URL |-> "none", i |-> 1, start |-> 0, now |-> 0, t |-> 1,
           DL_URL |-> "none", put |-> {}, checked |-> {}, fin |-> {},
           timed |-> {}, asked |-> {}, got |-> {}]

NoPool == [kind |-> "none", n |-> 0, phase |-> "none", tasks |-> <<>>]

\* The job parameters built with a prefix whether one was given or not.
BuildParamsAlwaysPrefix(a) ==
    [agents |-> a.agents, files |-> <<>>, prefix |-> a.prefix]

\* Lines 477-479: job_params = {"agents": args.agents, "files": []}, and
\* the key prefix when args.prefix is not empty.
BuildParams(a) ==
    IF a.prefix # <<>>
    THEN [agents |-> a.agents, files |-> <<>>, prefix |-> a.prefix]
    ELSE [agents |-> a.agents, files |-> <<>>]

MainIdle ==
    /\ pc = "idle"
    /\ input_files = <<>>
    /\ job_params = BuildParams(DefaultArgs)
    /\ job_file = <<>>
    /\ up = <<>>
    /\ dl = <<>>
    /\ downloaded = EmptyDict
    /\ job_id = "none"
    /\ args = DefaultArgs
    /\ dr = NoCall

WaitInit ==
    /\ MainIdle
    /\ inputs_dir = <<>>
    /\ sh = ShIdle
    /\ pool = NoPool
    /\ timeout \in -1..MaxTimeout
    /\ interval \in 1..MaxInterval
    /\ \E s \in 0..MaxStart : wf = WaitEnter(s)
    /\ hist = NoHist

waitUnchanged == <<pc, input_files, timeout, interval, job_params, job_file,
                   up, dl, downloaded, pool, job_id, inputs_dir, sh, args, dr>>

\* The loop test at line 337.
WfTest ==
    /\ wf.pcw = "test"
    /\ wf' = WaitTest(wf, timeout)
    /\ hist' = [hist EXCEPT !.last = "test"]
    /\ UNCHANGED waitUnchanged

\* The try block, lines 338-349, for every response and duration.
WfCheck ==
    /\ wf.pcw = "check"
    /\ \E resp \in Responses, d \in 0..MaxDelay :
          /\ wf' = WaitCheck(wf, resp, d)
          /\ hist' = [hist EXCEPT
                        !.checks = @ + 1,
                        !.trues = @ + (IF resp = "exists_true" THEN 1 ELSE 0),
                        !.errors = @ + (IF CheckResult(resp) = "raised" THEN 1 ELSE 0),
                        !.delayed = @ \/ d > 0,
                        !.last = resp,
                        !.at = wf.now - wf.start_time]
    /\ UNCHANGED waitUnchanged

\* The sleep at line 350.
WfSleep ==
    /\ wf.pcw = "sleep"
    /\ wf' = WaitSleep(wf, interval)
    /\ hist' = [hist EXCEPT !.sleeps = @ + 1, !.last = "sleep"]
    /\ UNCHANGED waitUnchanged

WaitNext == WfTest \/ WfCheck \/ WfSleep

WaitSpec == WaitInit /\ [][WaitNext]_vars

Elapsed == wf.now - wf.start_time

ErrorResponses == {"network_error", "http_error", "malformed_body"}

\* C5: wait_for_file returns True on the first finalized check that answers
\* exists=true: that check started before the timeout, it is the last thing
\* the call did (no sleep and no check follows it), and every check before
\* it, whatever it answered, was followed by exactly one sleep.
C5_ReturnsOnFirstTrue ==
    /\ hist.trues >= 1 =>
          /\ wf.pcw = "true"
          /\ hist.trues = 1
          /\ hist.last = "exists_true"
          /\ hist.sleeps = hist.checks - 1
          /\ hist.at < timeout
    /\ wf.pcw = "true" => hist.trues = 1

\* C5 witness: True returned by the third check, after an exists=false answer
\* and a failed check.
C5_Witness ==
    /\ wf.pcw = "true"
    /\ hist.checks = 3
    /\ hist.errors = 1

\* C6: with timeout > 0 and interval > 0, when no check reports the file
\* finalized and the checks take no time, wait_for_file returns False, without
\* raising, at an elapsed time in [timeout, timeout + interval]; the number of
\* checks is bounded by the timeout (check k starts no earlier than
\* (k-1)*interval and before the timeout), and the call can always take its
\* next step until it has returned.
C6_PollBounded ==
    /\ (wf.pcw = "false" /\ timeout > 0 /\ hist.trues = 0 /\ ~hist.delayed) =>
          /\ Elapsed >= timeout
          /\ Elapsed <= timeout + interval
    /\ (timeout > 0 /\ hist.trues = 0 /\ wf.pcw \notin {"test", "check", "sleep"}) =>
          wf.pcw = "false"
    /\ hist.checks >= 1 => (hist.checks - 1) * interval < timeout
    /\ wf.pcw \in {"test", "check", "sleep"} => ENABLED WaitNext

\* C6 witness: interval=1, timeout=3, three checks that report not finalized
\* and take no time, False returned three seconds after the start.
C6_Witness ==
    /\ wf.pcw = "false"
    /\ interval = 1
    /\ timeout = 3
    /\ hist.checks = 3
    /\ hist.errors = 0
    /\ ~hist.delayed
    /\ Elapsed = 3
    /\ wf.start_time > 0

\* C7: a failed finalized check (network error, non-2xx, malformed body) is
\* handled as an exists=false answer is: it leaves the call in the state the
\* same check answering exists=false would, at the sleep; no exception leaves
\* wait_for_file; and False is returned only with the timeout used up.
C7_CheckErrorsTransient ==
    /\ wf.pcw # "raised"
    /\ hist.last \in ErrorResponses => wf.pcw = "sleep"
    /\ wf.pcw = "check" =>
          \A resp \in ErrorResponses, d \in 0..MaxDelay :
             WaitCheck(wf, resp, d) = WaitCheck(wf, "exists_false", d)
    /\ wf.pcw = "false" => Elapsed >= timeout

\* C7 witness: False returned on timeout by a call every check of which failed.
C7_Witness ==
    /\ wf.pcw = "false"
    /\ hist.checks >= 2
    /\ hist.errors = hist.checks

\* C20: the timeout is tested only at the head of the loop: a finalized
\* check starts only at an elapsed time below the timeout; a check that did
\* not report the file finalized is followed by the sleep, after which at
\* least interval seconds have passed since that check started and the test
\* comes next; False is returned right after a sleep, or at once, with as
\* many sleeps as checks (no check follows the last sleep); so a call with
\* timeout <= 0 returns False without a check, and a call with timeout > 0
\* makes its first check before anything else.
C20_TimeoutAtLoopHead ==
    /\ wf.pcw = "check" => Elapsed < timeout
    /\ hist.checks >= 1 => hist.at < timeout
    /\ (hist.last \in Responses \ {"exists_true"}) =>
          /\ wf.pcw = "sleep"
          /\ hist.sleeps = hist.checks - 1
    /\ hist.last = "sleep" =>
          /\ wf.pcw = "test"
          /\ hist.sleeps = hist.checks
          /\ Elapsed >= hist.at + interval
    /\ wf.pcw = "false" =>
          /\ hist.sleeps = hist.checks
          /\ hist.trues = 0
          /\ Elapsed >= timeout
    /\ timeout <= 0 =>
          /\ hist.checks = 0
          /\ hist.sleeps = 0
          /\ wf.pcw \in {"test", "false"}
    /\ timeout > 0 =>
          /\ wf.pcw \in {"sleep", "true", "false"} => hist.checks >= 1
          /\ (hist.last = "test" /\ hist.checks = 0) => wf.pcw = "check"

\* C20 witness: a call with timeout 0 has returned False without a check.
C20_Witness ==
    /\ wf.pcw = "false"
    /\ timeout = 0
    /\ hist.checks = 0
    /\ hist.last = "test"

\* ------------------------------------------------------ ThreadPoolExecutor
\* A future is "queued" from executor.submit until a worker thread takes it,
\* "running" while the worker executes the task, "done" once it has returned
\* or raised.
Running(tasks) == Cardinality({i \in DOMAIN tasks : tasks[i].st = "running"})

\* A worker thread that takes the next item even with all five busy.
WorkerFreeOffByOne(n) == n <= MaxWorkers

\* max_workers=5: a sixth item waits in the queue until a worker is free.
WorkerFree(n) == n < MaxWorkers

\* The work queue is first in, first out: the item a free worker takes.
NextQueued(tasks, i) ==
    /\ i \in DOMAIN tasks
    /\ tasks[i].st = "queued"
    /\ \A j \in DOMAIN tasks : j < i => tasks[j].st # "queued"

\* as_completed has yielded every future: the for loop ends.
AllCollected(tasks) == \A i \in DOMAIN tasks : tasks[i].collected

\* -------------------------------------------------------------- uploads
\* submit_file raised: the future holds the exception.
UploadRaised(t) == [t EXCEPT !.st = "done", !.at = "end", !.result = "raised"]

\* Lines 248, 221-227: the signed-URL request answered (ok) or failed.
SubmitFileUrl(t, ok) ==
    IF ok THEN [t EXCEPT !.at = "put"] ELSE UploadRaised(t)

\* Lines 250-253: the PUT answered 2xx (ok), or open/put/raise_for_status raised.
SubmitFilePut(t, ok) ==
    IF ok THEN [t EXCEPT !.st = "done", !.at = "end", !.result = "ok", !.put_done = TRUE]
    ELSE UploadRaised(t)

\* The append done as an assignment: the list holds the last name only.
AppendTargetOverwrites(files, target) == <<target>>

\* Line 274: job_params['files'].append(target)
AppendTarget(files, target) == Append(files, target)

\* The loop without its except clause: the exception leaves submit_files.
OnUploadFailureRaises(p) == "raised_submit_files"

\* Lines 276-277: except Exception: log; the for loop goes on.
OnUploadFailure(p) == p

\* ------------------------------------------------------------------ main()
Range(s) == {s[i] : i \in DOMAIN s}

\* An input directory: up to MaxFiles entries that follow each other in the
\* listing, or none.
Pick(k, n) == SubSeq(DirListing, k, k + n - 1)

Dirs ==
    {Pick(x[1], x[2]) : x \in {y \in (DOMAIN DirListing) \X (0..MaxFiles) :
                                  y[1] + y[2] - 1 <= Len(DirListing)}}

NewUpload == [st |-> "queued", at |-> "url", result |-> "none",
              put_done |-> FALSE, collected |-> FALSE]

Raised == {"raised_create_job", "raised_submit_files", "raised_submit_job",
           "raised_download_results"}

\* main() at its first statement after parse_args.
Start ==
    /\ pc = "create_job"
    /\ input_files = <<>>
    /\ timeout \in RunTimeouts
    /\ interval \in RunIntervals
    /\ job_params = BuildParams(DefaultArgs)
    /\ job_file = <<>>
    /\ up = <<>>
    /\ dl = <<>>
    /\ downloaded = EmptyDict
    /\ wf = NoWait
    /\ hist = NoHist
    /\ pool = NoPool
    /\ job_id = "none"
    /\ sh = ShIdle

Init ==
    /\ Start
    /\ inputs_dir \in Dirs
    /\ args = DefaultArgs
    /\ dr = NoCall

\* What the POST to /api/jobs can come back with.
CreateResponses == {"job_id", "network_error", "http_error", "malformed_body"}

\* Lines 91-95: requests.post raises on a request error, raise_for_status on
\* a non-2xx, response.json and data["job_id"] on a malformed body; otherwise
\* the job_id of the body is returned.
CreateJobResult(resp) == IF resp = "job_id" THEN "job-123" ELSE "none"

\* The status of the response ignored: main goes on without a job.
AfterCreateJobIgnoresStatus(resp) == "init_client"

\* Line 466: nothing in main catches what create_job raises: the run ends
\* there; with a job_id main goes on to build the client.
AfterCreateJob(resp) ==
    IF CreateJobResult(resp) = "none" THEN "raised_create_job" ELSE "init_client"

\* Lines 466, 89-95: job_id = VoiceHarborClient.create_job(...)
CreateJob ==
    /\ pc = "create_job"
    /\ \E resp \in CreateResponses :
          /\ job_id' = CreateJobResult(resp)
          /\ pc' = AfterCreateJob(resp)
    /\ UNCHANGED <<input_files, timeout, interval, job_params, job_file,
                   up, dl, downloaded, wf, hist, pool, inputs_dir, sh, args, dr>>

\* Lines 469-479: the client and its input_files, then job_params.
InitClient ==
    /\ pc = "init_client"
    /\ input_files' = parse_files(inputs_dir)
    /\ job_params' = BuildParams(args)
    /\ pc' = "up_submit"
    /\ UNCHANGED <<timeout, interval, job_file, up, dl, downloaded, wf, hist, pool, job_id, inputs_dir, sh, args, dr>>

\* Line 269: executor.submit(self.submit_file, file), one file at a time.
SubmitUpload ==
    /\ pc = "up_submit"
    /\ Len(up) < Len(input_files)
    /\ up' = Append(up, NewUpload)
    /\ UNCHANGED <<pc, input_files, timeout, interval, job_params, job_file,
                   dl, downloaded, wf, hist, pool, job_id, inputs_dir, sh, args, dr>>

\* Line 270: every file is submitted; the as_completed loop starts.
BeginCollectUploads ==
    /\ pc = "up_submit"
    /\ Len(up) = Len(input_files)
    /\ pc' = "up_collect"
    /\ UNCHANGED <<input_files, timeout, interval, job_params, job_file,
                   up, dl, downloaded, wf, hist, pool, job_id, inputs_dir, sh, args, dr>>

\* A worker thread of the upload executor takes the next queued file.
StartUpload(i) ==
    /\ pc \in {"up_submit", "up_collect"}
    /\ NextQueued(up, i)
    /\ WorkerFree(Running(up))
    /\ up' = [up EXCEPT ![i].st = "running"]
    /\ UNCHANGED <<pc, input_files, timeout, interval, job_params, job_file,
                   dl, downloaded, wf, hist, pool, job_id, inputs_dir, sh, args, dr>>

\* submit_file, line 248: the upload-url request of file i.
UploadUrl(i) ==
    /\ i \in DOMAIN up
    /\ up[i].st = "running"
    /\ up[i].at = "url"
    /\ \E ok \in BOOLEAN : up' = [up EXCEPT ![i] = SubmitFileUrl(@, ok)]
    /\ UNCHANGED <<pc, input_files, timeout, interval, job_params, job_file,
                   dl, downloaded, wf, hist, pool, job_id, inputs_dir, sh, args, dr>>

\* submit_file, lines 250-253: the PUT of file i to the signed URL.
UploadPut(i) ==
    /\ i \in DOMAIN up
    /\ up[i].st = "running"
    /\ up[i].at = "put"
    /\ \E ok \in BOOLEAN : up' = [up EXCEPT ![i] = SubmitFilePut(@, ok)]
    /\ UNCHANGED <<pc, input_files, timeout, interval, job_params, job_file,
                   dl, downloaded, wf, hist, pool, job_id, inputs_dir, sh, args, dr>>

\* Lines 270-277: as_completed yields the finished future of file i; its
\* result is appended, or its exception caught and logged.
CollectUpload(i) ==
    /\ pc = "up_collect"
    /\ i \in DOMAIN up
    /\ up[i].st = "done"
    /\ ~up[i].collected
    /\ up' = [up EXCEPT ![i].collected = TRUE]
    /\ IF up[i].result = "ok"
       THEN /\ job_params' = [job_params EXCEPT
                                !.files = AppendTarget(@, input_files[i])]
            /\ pc' = pc
       ELSE /\ job_params' = job_params
            /\ pc' = OnUploadFailure(pc)
    /\ UNCHANGED <<input_files, timeout, interval, job_file, dl, downloaded,
                   wf, hist, pool, job_id, inputs_dir, sh, args, dr>>

\* Line 278: the loop is over, the executor has shut down: return job_params.
ReturnSubmitFiles ==
    /\ pc = "up_collect"
    /\ AllCollected(up)
    /\ pc' = "write_job"
    /\ UNCHANGED <<input_files, timeout, interval, job_params, job_file,
                   up, dl, downloaded, wf, hist, pool, job_id, inputs_dir, sh, args, dr>>

\* submit_job, lines 292-293: job_parameters dumped to {job_id}.yaml.
WriteJob ==
    /\ pc = "write_job"
    /\ job_file' = Dump(job_params)
    /\ pc' = "upload_job"
    /\ UNCHANGED <<input_files, timeout, interval, job_params, up, dl,
                   downloaded, wf, hist, pool, job_id, inputs_dir, sh, args, dr>>

\* submit_job, line 294: submit_file(job_file) in the main thread; a failed
\* request raises out of main.
UploadJob ==
    /\ pc = "upload_job"
    /\ \E ok \in BOOLEAN :
          pc' = IF ok THEN "dl_enter" ELSE "raised_submit_job"
    /\ UNCHANGED <<input_files, timeout, interval, job_params, job_file,
                   up, dl, downloaded, wf, hist, pool, job_id, inputs_dir, sh, args, dr>>

\* ------------------------------------------------------------ downloads
NoFlags == [a \in Arts |-> FALSE]

\* A download_pair task.  art is the artifact download_file is called for, w
\* the frame of its wait_for_file call (w.pcw is "url" and "get" for the two
\* requests that follow it); the flags record, per artifact, that a finalized
\* check was issued, that one answered exists=true, that wait_for_file
\* returned False, that the download-URL request and the GET were issued and
\* that the file was written; pair is the dict download_pair returns, empty
\* (FALSE) or with its one entry.
NewDownload == [st |-> "queued", art |-> "file", w |-> NoWait,
                polled |-> NoFlags, fin |-> NoFlags, timed_out |-> NoFlags,
                req |-> NoFlags,
                get |-> NoFlags, saved |-> NoFlags,
                pair |-> FALSE, cause |-> "none", collected |-> FALSE]

\* The frame of wait_for_file is gone once the call has returned; what is
\* left of w is where download_file is: "url", "get", or "idle".
At(where) == [NoWait EXCEPT !.pcw = where]

\* download_pair without its try: the exception is left in the future.
DownloadPairNoCatch(t, cause) == [t EXCEPT !.st = "done", !.cause = "escaped", !.w = At("idle")]

\* Lines 433-435: except Exception: log; return the pair as it is.
DownloadPairCatch(t, cause) == [t EXCEPT !.st = "done", !.cause = cause, !.w = At("idle")]

\* The result of wait_for_file ignored: the download goes ahead.
OnWaitFalseProceeds(t) == [t EXCEPT !.w = At("url")]

\* Lines 373-374: wait_for_file returned False: raise.
OnWaitFalse(t) == DownloadPairCatch(t, "timeout")

\* Line 375: wait_for_file returned True: go on to the download-URL request.
\* The worker's clock runs on; it is read again only by the wait for the
\* JSON, so it is kept only until then.
OnWaitTrue(t) ==
    [t EXCEPT !.fin[t.art] = TRUE,
              !.w = [At("url") EXCEPT !.now = IF t.art = "file" THEN t.w.now ELSE 0]]

\* The step of a task whose wait_for_file call moved to frame w2.
AfterWait(t, w2) ==
    IF w2.pcw = "false" THEN OnWaitFalse([t EXCEPT !.timed_out[t.art] = TRUE])
    ELSE IF w2.pcw = "true" THEN OnWaitTrue(t)
    ELSE IF w2.pcw = "raised" THEN DownloadPairCatch(t, "error")
    ELSE [t EXCEPT !.w = w2]

\* download_file called without polling first.
DownloadFileEnterNoWait(t) == [t EXCEPT !.w = At("url")]

\* The second wait of a pair counting its time from the start of the first.
DownloadFileEnterSharedWindow(t) ==
    AfterWait(t, WaitTest([WaitEnter(t.w.now) EXCEPT !.start_time = 0], timeout))

\* Line 373: download_file starts with wait_for_file(file_name, ...), which
\* reads the clock (line 336; a worker's clock is read relative to the
\* instant the worker took the task) and makes its first loop test.
DownloadFileEnter(t) == AfterWait(t, WaitTest(WaitEnter(t.w.now), timeout))

\* Lines 375, 310-317: the download-URL request answered (ok) or failed.
DownloadUrl(t, ok) ==
    LET t1 == [t EXCEPT !.req[t.art] = TRUE]
    IN  IF ok THEN [t1 EXCEPT !.w.pcw = "get"] ELSE DownloadPairCatch(t1, "error")

\* The entry of the pair written as soon as the main file is there.
OnSavedPairsEarly(t) ==
    IF t.art = "file"
    THEN DownloadFileEnter([t EXCEPT !.saved["file"] = TRUE, !.art = "json", !.pair = TRUE])
    ELSE [t EXCEPT !.saved["json"] = TRUE, !.pair = TRUE, !.st = "done", !.w = At("idle")]

\* Lines 426-435: the main file is written: download the JSON next; the JSON
\* is written: fill in the pair and return it.
OnSaved(t) ==
    IF t.art = "file"
    THEN DownloadFileEnter([t EXCEPT !.saved["file"] = TRUE, !.art = "json"])
    ELSE [t EXCEPT !.saved["json"] = TRUE, !.pair = TRUE, !.st = "done", !.w = At("idle")]

\* Lines 376-383: the GET and the write to dest_dir / file_name succeeded
\* (ok), or the GET, raise_for_status or the write raised.
DownloadGet(t, ok) ==
    LET t1 == [t EXCEPT !.get[t.art] = TRUE]
    IN  IF ok THEN OnSaved(t1) ELSE DownloadPairCatch(t1, "error")

\* Line 378: dest_path = dest_dir / file_name
Dest(n) == <<"output_dir", n>>

\* Lines 429-432, 435: what download_pair(f) returns.
PairOf(t, f) ==
    IF t.pair
    THEN [k \in {f} |-> [file |-> Dest(f), json |-> Dest(JsonName(f))]]
    ELSE EmptyDict

\* Line 442: downloaded.update(result)
Update(d, r) ==
    [k \in DOMAIN d \cup DOMAIN r |-> IF k \in DOMAIN r THEN r[k] ELSE d[k]]

\* Lines 411-416: the names of the batch read from the text of the YAML
\* file: job_data.get("files", []) and len() of it; whatever is raised (by
\* read_text, by safe_load, by .get on what is no dict, by len() of what has
\* no length) is caught and leaves the batch empty.  Iterating a list gives
\* its items, iterating a str its characters.
YamlFileNames(job_data) ==
    IF job_data.type # "dict" THEN <<>>
    ELSE IF "files" \notin DOMAIN job_data.val THEN <<>>
    ELSE LET v == job_data.val["files"]
         IN  IF v.type = "list" THEN [k \in DOMAIN v.val |-> v.val[k].val]
             ELSE IF v.type = "str" THEN [k \in DOMAIN v.val |-> <<v.val[k]>>]
             ELSE <<>>

\* Line 411: yaml_module.safe_load(job_yaml_file.read_text()): read_text
\* raises when no file is at the path; yaml is the file submit_job wrote, or
\* another path.
SafeLoad(d, written) ==
    IF d.yaml = "job_file" THEN Load(written)
    ELSE IF d.file.exists THEN Load(d.file.text)
    ELSE LoadError

\* The batch taken from the instance whether or not a YAML file is named.
EnterIgnoresYaml(d, files, written) == [d EXCEPT !.file_names = files]

\* Lines 406-418: the batch of download_results: from the YAML file when one
\* is named, else the names of self.input_files.
Enter(d, files, written) ==
    IF d.yaml # "None"
    THEN [d EXCEPT !.job_data = SafeLoad(d, written),
                   !.file_names = YamlFileNames(SafeLoad(d, written))]
    ELSE [d EXCEPT !.file_names = files]

file_names == dr.file_names

\* Lines 401-418: download_results is entered and settles its batch.
DownloadResultsEnter ==
    /\ pc = "dl_enter"
    /\ dr' = Enter(dr, input_files, job_file)
    /\ pc' = "dl_submit"
    /\ UNCHANGED <<input_files, timeout, interval, job_params, job_file,
                   up, dl, downloaded, wf, hist, pool, job_id, inputs_dir, sh, args>>

\* Line 439: executor.submit(download_pair, file_name), one name at a time.
SubmitDownload ==
    /\ pc = "dl_submit"
    /\ Len(dl) < Len(file_names)
    /\ dl' = Append(dl, NewDownload)
    /\ UNCHANGED <<pc, input_files, timeout, interval, job_params, job_file,
                   up, downloaded, wf, hist, pool, job_id, inputs_dir, sh, args, dr>>

\* Line 440: every name is submitted; the as_completed loop starts.
BeginCollectDownloads ==
    /\ pc = "dl_submit"
    /\ Len(dl) = Len(file_names)
    /\ pc' = "dl_collect"
    /\ UNCHANGED <<input_files, timeout, interval, job_params, job_file,
                   up, dl, downloaded, wf, hist, pool, job_id, inputs_dir, sh, args, dr>>

\* A worker thread of the download executor takes the next queued name and
\* enters download_pair, download_file, wait_for_file.
StartDownload(i) ==
    /\ pc \in {"dl_submit", "dl_collect"}
    /\ NextQueued(dl, i)
    /\ WorkerFree(Running(dl))
    /\ dl' = [dl EXCEPT ![i] = DownloadFileEnter([@ EXCEPT !.st = "running"])]
    /\ UNCHANGED <<pc, input_files, timeout, interval, job_params, job_file,
                   up, downloaded, wf, hist, pool, job_id, inputs_dir, sh, args, dr>>

\* wait_for_file of task i: one finalized check.
DlCheck(i) ==
    /\ i \in DOMAIN dl
    /\ dl[i].st = "running"
    /\ dl[i].w.pcw = "check"
    /\ \E resp \in Responses, d \in RunDelays :
          dl' = [dl EXCEPT ![i] =
                   AfterWait([@ EXCEPT !.polled[@.art] = TRUE], WaitCheck(@.w, resp, d))]
    /\ UNCHANGED <<pc, input_files, timeout, interval, job_params, job_file,
                   up, downloaded, wf, hist, pool, job_id, inputs_dir, sh, args, dr>>

\* wait_for_file of task i: the sleep and the loop test that follows it.
DlSleep(i) ==
    /\ i \in DOMAIN dl
    /\ dl[i].st = "running"
    /\ dl[i].w.pcw = "sleep"
    /\ dl' = [dl EXCEPT ![i] =
                AfterWait(@, WaitTest(WaitSleep(@.w, interval), timeout))]
    /\ UNCHANGED <<pc, input_files, timeout, interval, job_params, job_file,
                   up, downloaded, wf, hist, pool, job_id, inputs_dir, sh, args, dr>>

\* download_file of task i: the download-URL request.
DlUrl(i) ==
    /\ i \in DOMAIN dl
    /\ dl[i].st = "running"
    /\ dl[i].w.pcw = "url"
    /\ \E ok \in BOOLEAN : dl' = [dl EXCEPT ![i] = DownloadUrl(@, ok)]
    /\ UNCHANGED <<pc, input_files, timeout, interval, job_params, job_file,
                   up, downloaded, wf, hist, pool, job_id, inputs_dir, sh, args, dr>>

\* download_file of task i: the GET and the write.
DlGet(i) ==
    /\ i \in DOMAIN dl
    /\ dl[i].st = "running"
    /\ dl[i].w.pcw = "get"
    /\ \E ok \in BOOLEAN : dl' = [dl EXCEPT ![i] = DownloadGet(@, ok)]
    /\ UNCHANGED <<pc, input_files, timeout, interval, job_params, job_file,
                   up, downloaded, wf, hist, pool, job_id, inputs_dir, sh, args, dr>>

\* Lines 440-442: as_completed yields the finished future of task i;
\* future.result() returns its pair, or raises what the task raised.
CollectDownload(i) ==
    /\ pc = "dl_collect"
    /\ i \in DOMAIN dl
    /\ dl[i].st = "done"
    /\ ~dl[i].collected
    /\ dl' = [dl EXCEPT ![i].collected = TRUE]
    /\ IF dl[i].cause = "escaped"
       THEN /\ pc' = "raised_download_results"
            /\ downloaded' = downloaded
       ELSE /\ pc' = pc
            /\ downloaded' = Update(downloaded, PairOf(dl[i], file_names[i]))
    /\ UNCHANGED <<input_files, timeout, interval, job_params, job_file,
                   up, wf, hist, pool, job_id, inputs_dir, sh, args, dr>>

\* Line 443 and line 492: the loop is over; main logs the dict and ends.
ReturnDownloadResults ==
    /\ pc = "dl_collect"
    /\ AllCollected(dl)
    /\ pc' = "done"
    /\ UNCHANGED <<input_files, timeout, interval, job_params, job_file,
                   up, dl, downloaded, wf, hist, pool, job_id, inputs_dir, sh, args, dr>>

Items == 1..MaxFiles

Next ==
    \/ CreateJob
    \/ InitClient
    \/ SubmitUpload
    \/ BeginCollectUploads
    \/ \E i \in Items : StartUpload(i)
    \/ \E i \in Items : UploadUrl(i)
    \/ \E i \in Items : UploadPut(i)
    \/ \E i \in Items : CollectUpload(i)
    \/ ReturnSubmitFiles
    \/ WriteJob
    \/ UploadJob
    \/ DownloadResultsEnter
    \/ SubmitDownload
    \/ BeginCollectDownloads
    \/ \E i \in Items : StartDownload(i)
    \/ \E i \in Items : DlCheck(i)
    \/ \E i \in Items : DlSleep(i)
    \/ \E i \in Items : DlUrl(i)
    \/ \E i \in Items : DlGet(i)
    \/ \E i \in Items : CollectDownload(i)
    \/ ReturnDownloadResults

Spec == Init /\ [][Next]_vars

\* --------------------------------------------------------------- ParamSpec
\* main() from its start to the entry of download_results, for wider
\* --agents and --prefix, with the parameter file submit_job wrote handed to
\* download_results as its yaml argument: what is dumped is loaded again.
AgentNames == {<<"x">>, <<"1", "2">>, <<"n", "o">>}

AgentLists == UNION {[1..n -> AgentNames] : n \in 1..MaxAgents}

Prefixes == {<<>>, <<"p">>, <<"~">>}

ParamInit ==
    /\ Start
    /\ inputs_dir = SubSeq(DirListing, 1, MaxFiles)
    /\ \/ args = DefaultArgs
       \/ \E a \in AgentLists, p \in Prefixes : args = [agents |-> a, prefix |-> p]
    /\ dr = [NoCall EXCEPT !.yaml = "job_file"]

ParamNext ==
    \/ CreateJob
    \/ InitClient
    \/ SubmitUpload
    \/ BeginCollectUploads
    \/ \E i \in Items : StartUpload(i)
    \/ \E i \in Items : UploadUrl(i)
    \/ \E i \in Items : UploadPut(i)
    \/ \E i \in Items : CollectUpload(i)
    \/ ReturnSubmitFiles
    \/ WriteJob
    \/ UploadJob
    \/ DownloadResultsEnter

ParamSpec == ParamInit /\ [][ParamNext]_vars

\* ------------------------------------------------------------ DownloadSpec
\* download_results called on a client constructed for an existing job (no
\* upload in this run), without a yaml argument or with the path of a file:
\* a parameter file listing up to MaxFiles names, one listing none, one
\* without a files key, one with a null files key, one with a one-letter
\* string as files, an empty one, one that is no YAML, and a path where no file is.
YamlNames == {<<"b", ".", "W", "A", "V">>, <<"a", ".", "m", "p", "3">>}

YamlLists == UNION {[1..n -> YamlNames] : n \in 0..MaxFiles}

YamlTexts ==
    {Dump([agents |-> DefaultArgs.agents, files |-> l]) : l \in YamlLists}
       \cup {DumpList("agents", DefaultArgs.agents),
             <<Line("key", "files", <<>>)>>,
             <<Line("pair", "files", <<"b">>)>>,
             <<>>,
             <<NotYaml>>}

YamlFiles == {NoFile} \cup {[exists |-> TRUE, text |-> t] : t \in YamlTexts}

DownloadInit ==
    /\ pc = "dl_enter"
    /\ timeout \in RunTimeouts
    /\ interval \in RunIntervals
    /\ job_params = BuildParams(DefaultArgs)
    /\ job_file = <<>>
    /\ up = <<>>
    /\ dl = <<>>
    /\ downloaded = EmptyDict
    /\ wf = NoWait
    /\ hist = NoHist
    /\ pool = NoPool
    /\ job_id = "job"
    /\ sh = ShIdle
    /\ args = DefaultArgs
    /\ \/ /\ inputs_dir \in Dirs
          /\ dr = NoCall
       \/ /\ inputs_dir = SubSeq(DirListing, 1, 1)
          /\ \E f \in YamlFiles : dr = [NoCall EXCEPT !.yaml = "path", !.file = f]
    /\ input_files = parse_files(inputs_dir)

DownloadNext ==
    \/ DownloadResultsEnter
    \/ SubmitDownload
    \/ BeginCollectDownloads
    \/ \E i \in Items : StartDownload(i)
    \/ \E i \in Items : DlCheck(i)
    \/ \E i \in Items : DlSleep(i)
    \/ \E i \in Items : DlUrl(i)
    \/ \E i \in Items : DlGet(i)
    \/ \E i \in Items : CollectDownload(i)
    \/ ReturnDownloadResults

DownloadSpec == DownloadInit /\ [][DownloadNext]_vars

\* --------------------------------------------------------------- BatchSpec
\* download_results called without a yaml argument on a client of up to
\* MaxFiles input files, or with the path of a parameter file that lists
\* MaxItems names, more than the executor has workers.  In such a long batch the server never reports a file
\* finalized: every check answers exists=false or fails, which keeps every
\* worker polling until its timeout.
LongList(n) == [k \in 1..n |-> IF k % 2 = 1 THEN <<"b", ".", "W", "A", "V">>
                                             ELSE <<"a", ".", "m", "p", "3">>]

LongFile ==
    [exists |-> TRUE,
     text |-> Dump([agents |-> DefaultArgs.agents, files |-> LongList(MaxItems)])]

BatchInit ==
    /\ pc = "dl_enter"
    /\ timeout \in RunTimeouts
    /\ interval \in RunIntervals
    /\ job_params = BuildParams(DefaultArgs)
    /\ job_file = <<>>
    /\ up = <<>>
    /\ dl = <<>>
    /\ downloaded = EmptyDict
    /\ wf = NoWait
    /\ hist = NoHist
    /\ pool = NoPool
    /\ job_id = "job"
    /\ sh = ShIdle
    /\ args = DefaultArgs
    /\ \/ /\ \E n \in 0..MaxFiles : inputs_dir = SubSeq(DirListing, 1, n)
          /\ dr = NoCall
       \/ /\ inputs_dir = SubSeq(DirListing, 1, 1)
          /\ dr = [NoCall EXCEPT !.yaml = "path", !.file = LongFile]
    /\ input_files = parse_files(inputs_dir)

\* The server of a long batch never reports a file finalized.
NeverFinalized(i) == Len(file_names) > MaxFiles => ~dl'[i].fin["file"]

\* The places of a batch.
BatchItems == 1..MaxItems

BatchNext ==
    \/ DownloadResultsEnter
    \/ SubmitDownload
    \/ BeginCollectDownloads
    \/ \E i \in BatchItems : StartDownload(i)
    \/ \E i \in BatchItems : DlCheck(i) /\ NeverFinalized(i)
    \/ \E i \in BatchItems : DlSleep(i)
    \/ \E i \in BatchItems : DlUrl(i)
    \/ \E i \in BatchItems : DlGet(i)
    \/ \E i \in BatchItems : CollectDownload(i)
    \/ ReturnDownloadResults

BatchSpec == BatchInit /\ [][BatchNext]_vars

\* Every worker thread is scheduled, and every HTTP call and every sleep
\* returns: the call takes a next step whenever it has one.
FairBatchSpec == BatchSpec /\ WF_vars(BatchNext)

\* ------------------------------------------------- the curl client (bash)
\* Line 48: "$INPUTS_DIR"/* leaves out the entries whose name starts with a
\* dot.
Glob(dir) == SelectSeq(dir, LAMBDA e : e.name[1] # ".")

\* The directory --inputs-dir names, as the usage line writes it.
INPUTS_DIR == <<".", "/", "i", "n">>

\* Line 50: ext="${fp##*.}": what follows the last dot of the path, or the
\* whole path when it has no dot.
ShExt(fp) ==
    IF RFindDot(fp) = 0 THEN fp ELSE SubSeq(fp, RFindDot(fp) + 1, Len(fp))

\* Lines 52-55: case "${ext,,}" in wav|mp3|flac|ogg|m4a|yaml
ShFormats ==
    {<<"w", "a", "v">>, <<"m", "p", "3">>, <<"f", "l", "a", "c">>,
     <<"o", "g", "g">>, <<"m", "4", "a">>, <<"y", "a", "m", "l">>}

\* Lines 49-55: the entry is a regular file and its extension is on the list.
ShSupported(e) ==
    e.is_file /\ Lower(ShExt(INPUTS_DIR \o <<"/">> \o e.name)) \in ShFormats

\* Line 118: the two targets of a name: "$fname" and "${fname%.*}.json".
ShTarget(f, t) ==
    IF t = 1 THEN f
    ELSE (IF RFindDot(f) = 0 THEN f ELSE SubSeq(f, 1, RFindDot(f) - 1))
            \o <<".", "j", "s", "o", "n">>

\* set -euo pipefail: a failed command ends the script.
ShExit(s) == [s EXCEPT !.pc = "exit"]

\* A pipeline curl -s ... | jq -r .key: curl fails on a network error, jq on a
\* body that is not JSON (either ends the script); an HTTP error is no error
\* for curl -s, and jq prints null for the key its body lacks.
JsonOutcomes == {"ok", "http_error", "network_error", "malformed_body"}

ShJson(o, value) ==
    IF o \in {"network_error", "malformed_body"} THEN "exit"
    ELSE IF o = "ok" THEN value ELSE "null"

BashInit ==
    /\ MainIdle
    /\ wf = NoWait
    /\ hist = NoHist
    /\ pool = NoPool
    /\ timeout \in RunTimeouts
    /\ interval \in RunIntervals
    /\ inputs_dir \in Dirs
    /\ sh = [ShIdle EXCEPT !.pc = "create_job"]

shUnchanged == <<pc, input_files, timeout, interval, job_params, job_file,
                 up, dl, downloaded, wf, hist, pool, job_id, inputs_dir, args, dr>>

\* Lines 37-41: JOB_ID=$(curl -s -X POST .../api/jobs | jq -r .job_id)
ShCreateJob ==
    /\ sh.pc = "create_job"
    /\ \E o \in JsonOutcomes :
          sh' = IF ShJson(o, "job-123") = "exit" THEN ShExit(sh)
                ELSE [sh EXCEPT !.JOB_ID = ShJson(o, "job-123"),
                                !.pc = "upload_loop"]
    /\ UNCHANGED shUnchanged

\* Lines 48-58: the next path of the glob: skipped, or its name added to FILES.
ShNextEntry ==
    /\ sh.pc = "upload_loop"
    /\ sh.k <= Len(Glob(inputs_dir))
    /\ sh' = IF ShSupported(Glob(inputs_dir)[sh.k])
             THEN [sh EXCEPT !.FILES = Append(@, Glob(inputs_dir)[sh.k].name),
                             !.pc = "upload_url"]
             ELSE [sh EXCEPT !.k = @ + 1]
    /\ UNCHANGED shUnchanged

\* Lines 62-67: UP_URL=$(curl ... /files/upload-url | jq -r .signedUrl)
ShUploadUrl ==
    /\ sh.pc = "upload_url"
    /\ \E o \in JsonOutcomes :
          sh' = IF ShJson(o, "url") = "exit" THEN ShExit(sh)
                ELSE [sh EXCEPT !.UP_URL = ShJson(o, "url"), !.pc = "upload_put"]
    /\ UNCHANGED shUnchanged

\* Lines 69-73: curl -s -X PUT "$UP_URL": curl fails on the URL null and on a
\* network error; an HTTP error passes unnoticed.
ShUploadPut ==
    /\ sh.pc = "upload_put"
    /\ \E o \in {"ok", "http_error", "network_error"} :
          sh' = IF sh.UP_URL = "null" \/ o = "network_error" THEN ShExit(sh)
                ELSE [sh EXCEPT
                        !.put = IF o = "ok" THEN @ \cup {sh.FILES[Len(sh.FILES)]} ELSE @,
                        !.UP_URL = "none", !.k = @ + 1, !.pc = "upload_loop"]
    /\ UNCHANGED shUnchanged

\* Line 73: the glob is used up.
ShEndUploads ==
    /\ sh.pc = "upload_loop"
    /\ sh.k > Len(Glob(inputs_dir))
    /\ sh' = [sh EXCEPT !.pc = "job_url"]
    /\ UNCHANGED shUnchanged

\* Lines 77-83: the upload URL of the job spec.
ShJobUrl ==
    /\ sh.pc = "job_url"
    /\ \E o \in JsonOutcomes :
          sh' = IF ShJson(o, "url") = "exit" THEN ShExit(sh)
                ELSE [sh EXCEPT !.UP_URL = ShJson(o, "url"), !.pc = "job_put"]
    /\ UNCHANGED shUnchanged

\* Lines 85-91: the PUT of the job spec; mkdir -p "$OUTPUT_DIR".
ShJobPut ==
    /\ sh.pc = "job_put"
    /\ \E o \in {"ok", "http_error", "network_error"} :
          sh' = IF sh.UP_URL = "null" \/ o = "network_error" THEN ShExit(sh)
                ELSE [sh EXCEPT !.UP_URL = "none", !.pc = "poll_next"]
    /\ UNCHANGED shUnchanged

\* Lines 94-97 and 129-130: the next name of FILES, start=$(date +%s) (the
\* clock is read relative to that instant), or the end of the script.
ShNextFile ==
    /\ sh.pc = "poll_next"
    /\ sh' = IF sh.i > Len(sh.FILES) THEN [sh EXCEPT !.pc = "done"]
             ELSE [sh EXCEPT !.start = 0, !.now = 0, !.pc = "poll_test"]
    /\ UNCHANGED shUnchanged

\* Lines 99-102: now=$(date +%s); past the timeout the loop is left by break.
ShPollTest ==
    /\ sh.pc = "poll_test"
    /\ sh' = IF sh.now >= sh.start + timeout
             THEN [sh EXCEPT !.timed = @ \cup {sh.FILES[sh.i]},
                             !.start = 0, !.now = 0, !.t = 1, !.pc = "dl_url"]
             ELSE [sh EXCEPT !.pc = "poll_check"]
    /\ UNCHANGED shUnchanged

\* Lines 104-112: exists=$(curl ... /files/finalized | jq -r .exists); on
\* "true" the loop is left by break.
ShPollCheck ==
    /\ sh.pc = "poll_check"
    /\ \E resp \in Responses, d \in RunDelays :
          LET s1 == [sh EXCEPT !.checked = @ \cup {sh.FILES[sh.i]}, !.now = @ + d]
          IN  sh' = IF resp \in {"network_error", "malformed_body"} THEN ShExit(s1)
                    ELSE IF resp = "exists_true"
                    THEN [s1 EXCEPT !.fin = @ \cup {sh.FILES[sh.i]},
                                    !.start = 0, !.now = 0, !.t = 1, !.pc = "dl_url"]
                    ELSE [s1 EXCEPT !.pc = "poll_sleep"]
    /\ UNCHANGED shUnchanged

\* Line 114: sleep "$INTERVAL"
ShPollSleep ==
    /\ sh.pc = "poll_sleep"
    /\ sh' = [sh EXCEPT !.now = @ + interval, !.pc = "poll_test"]
    /\ UNCHANGED shUnchanged

\* Lines 118-124: DL_URL=$(curl ... /files/download-url | jq -r .signedUrl)
ShDownloadUrl ==
    /\ sh.pc = "dl_url"
    /\ \E o \in JsonOutcomes :
          LET s1 == [sh EXCEPT !.asked = @ \cup {<<sh.FILES[sh.i], sh.t>>}]
          IN  sh' = IF ShJson(o, "url") = "exit" THEN ShExit(s1)
                    ELSE [s1 EXCEPT !.DL_URL = ShJson(o, "url"), !.pc = "dl_get"]
    /\ UNCHANGED shUnchanged

\* Lines 125-127: curl -s "$DL_URL" -o "$OUTPUT_DIR/$target": curl fails on
\* the URL null and on a network error, and writes the body of any response;
\* then the second target, or the next name.
ShDownloadGet ==
    /\ sh.pc = "dl_get"
    /\ \E o \in {"ok", "http_error", "network_error"} :
          sh' = IF sh.DL_URL = "null" \/ o = "network_error" THEN ShExit(sh)
                ELSE IF sh.t = 1
                THEN [sh EXCEPT !.got = @ \cup {<<sh.FILES[sh.i], 1>>},
                                !.DL_URL = "none", !.t = 2, !.pc = "dl_url"]
                ELSE [sh EXCEPT !.got = @ \cup {<<sh.FILES[sh.i], 2>>},
                                !.DL_URL = "none", !.t = 1, !.i = @ + 1,
                                !.pc = "poll_next"]
    /\ UNCHANGED shUnchanged

ShNext ==
    \/ ShCreateJob
    \/ ShNextEntry
    \/ ShUploadUrl
    \/ ShUploadPut
    \/ ShEndUploads
    \/ ShJobUrl
    \/ ShJobPut
    \/ ShNextFile
    \/ ShPollTest
    \/ ShPollCheck
    \/ ShPollSleep
    \/ ShDownloadUrl
    \/ ShDownloadGet

\* A run of the curl client.
BashSpec == BashInit /\ [][ShNext]_vars

\* A run of either client on an input directory.
ClientsInit == Init \/ BashInit

ClientsNext == Next \/ ShNext

ClientsSpec == ClientsInit /\ [][ClientsNext]_vars

\* ------------------------------------------------------- claims on main()
\* submit_files has returned to main.
SubmitFilesReturned ==
    pc \in {"write_job", "upload_job", "raised_submit_job", "dl_enter", "dl_submit",
            "dl_collect", "done", "raised_download_results"}

Count(seq, x) == Cardinality({k \in DOMAIN seq : seq[k] = x})

\* C1: whatever the input files and whichever of their uploads fail (at the
\* signed-URL request or at the PUT), submit_files does not raise and can
\* always go on until it returns; when it has returned every file was
\* attempted, every file whose upload succeeded is in job_params['files'] and
\* no file whose upload failed is.
C1_UploadFailureIsolated ==
    /\ pc # "raised_submit_files"
    /\ pc \in {"up_submit", "up_collect"} => ENABLED Next
    /\ SubmitFilesReturned =>
          /\ Len(up) = Len(input_files)
          /\ \A i \in DOMAIN up :
                /\ up[i].st = "done"
                /\ up[i].result \in {"ok", "raised"}
                /\ up[i].result = "ok" =>
                      input_files[i] \in Range(job_params.files)
                /\ up[i].result = "raised" =>
                      input_files[i] \notin Range(job_params.files)

\* C1 witness: submit_files has returned from a batch of two, one upload
\* failed, and the list holds the sibling alone.
C1_Witness ==
    /\ pc = "write_job"
    /\ Len(up) = 2
    /\ \E i, j \in DOMAIN up :
          /\ up[i].result = "raised"
          /\ up[j].result = "ok"
          /\ job_params.files = <<input_files[j]>>

\* C3: under every interleaving of the upload workers, job_params['files']
\* holds, at any moment, exactly once each name whose successful upload the
\* loop has collected, and nothing else; when submit_files has returned that
\* is every successfully uploaded name.
C3_AppendExactlyOnce ==
    /\ Range(job_params.files) \subseteq Range(input_files)
    /\ \A i \in DOMAIN up :
          Count(job_params.files, input_files[i]) =
             IF up[i].collected /\ up[i].result = "ok" THEN 1 ELSE 0
    /\ SubmitFilesReturned =>
          /\ \A i \in DOMAIN input_files :
                Count(job_params.files, input_files[i]) =
                   IF up[i].result = "ok" THEN 1 ELSE 0
          /\ Len(job_params.files) =
                Cardinality({i \in DOMAIN up : up[i].result = "ok"})

\* C3 witness: two uploads succeeded and were collected in the order opposite
\* to their submission.
C3_Witness ==
    /\ SubmitFilesReturned
    /\ Len(input_files) = 2
    /\ job_params.files = <<input_files[2], input_files[1]>>

\* Task i of the download batch got both its artifacts: each was reported
\* finalized to it and written by it.
BothDownloaded(t) ==
    \A a \in Arts : t.fin[a] /\ t.req[a] /\ t.get[a] /\ t.saved[a]

\* C2: download_results does not raise on a per-file failure, and when it has
\* returned a name f of the batch is a key of the mapping exactly if the
\* task of f was told that f and <stem(f)>.json are finalized and wrote them
\* both; a task that timed out or failed on either artifact leaves no entry;
\* an entry holds the two local paths.
C2_ResultMapping ==
    /\ pc # "raised_download_results"
    /\ DOMAIN downloaded \subseteq Range(file_names)
    /\ pc = "done" =>
          /\ Len(dl) = Len(file_names)
          /\ \A i \in DOMAIN dl :
                /\ file_names[i] \in DOMAIN downloaded <=> BothDownloaded(dl[i])
                /\ dl[i].cause \in {"timeout", "error"} =>
                      file_names[i] \notin DOMAIN downloaded
                /\ (\E a \in Arts : dl[i].timed_out[a] \/ (dl[i].get[a] /\ ~dl[i].saved[a])) =>
                      file_names[i] \notin DOMAIN downloaded
                /\ file_names[i] \in DOMAIN downloaded =>
                      downloaded[file_names[i]] =
                         [file |-> Dest(file_names[i]),
                          json |-> Dest(JsonName(file_names[i]))]

\* C2 witness: download_results has returned; one name has its entry, the
\* other, whose main file was written and whose JSON timed out, has none.
C2_Witness ==
    /\ pc = "done"
    /\ \E i, j \in DOMAIN dl :
          /\ file_names[i] \in DOMAIN downloaded
          /\ dl[j].saved["file"]
          /\ dl[j].timed_out["json"]
          /\ file_names[j] \notin DOMAIN downloaded

\* A step of task j of the download batch is possible.
CanStep(j) ==
    ENABLED (StartDownload(j) \/ DlCheck(j) \/ DlSleep(j) \/ DlUrl(j) \/ DlGet(j))

\* What C8 says of a state: a task whose wait_for_file returned False for an
\* artifact is over, and has issued no download-URL request and no GET for
\* that artifact; every other task that is running, or next in the queue,
\* can take its next step.
C8_State ==
    \A i \in DOMAIN dl :
       /\ \A a \in Arts : dl[i].timed_out[a] =>
             /\ dl[i].st = "done"
             /\ dl[i].cause = "timeout"
             /\ dl[i].art = a
             /\ ~dl[i].fin[a] /\ ~dl[i].req[a] /\ ~dl[i].get[a] /\ ~dl[i].saved[a]
       /\ (dl[i].st = "running" \/ NextQueued(dl, i)) => CanStep(i)

\* What C8 says of a step: a task that has timed out changes no more, but for
\* being collected by the loop (it is not polled again); and the step in
\* which a task times out leaves every other task as it is.
C8_Step ==
    \A i \in DOMAIN dl :
       /\ dl[i].cause = "timeout" =>
             dl'[i] = [dl[i] EXCEPT !.collected = dl'[i].collected]
       /\ (dl[i].cause # "timeout" /\ dl'[i].cause = "timeout") =>
             \A j \in DOMAIN dl : j # i => dl'[j] = dl[j]

\* C8: a polling timeout abandons only its own item: no download-URL request
\* and no GET is ever issued by the task for the name that timed out, the
\* task does not poll again, and the other tasks of the batch, running or
\* queued, go on unaffected.
C8_TimeoutAbandonsOnlyItem == [](C8_State) /\ [][C8_Step]_vars

\* C8 witness: one task has timed out and been collected while another,
\* started before the timeout, is past its own poll and downloading.
C8_Witness ==
    \E i, j \in DOMAIN dl :
       /\ dl[i].timed_out["file"]
       /\ dl[i].collected
       /\ dl[j].st = "running"
       /\ dl[j].w.pcw = "get"

\* C9: a download-URL request or a GET for an artifact name is issued only by
\* a task to which a finalized check for that name has answered exists=true:
\* a task is at, or past, either request of an artifact only with that answer.
C9_NoDownloadBeforeFinalized ==
    \A i \in DOMAIN dl : \A a \in Arts :
       (\/ dl[i].req[a] \/ dl[i].get[a] \/ dl[i].saved[a]
        \/ (dl[i].st = "running" /\ dl[i].art = a /\ dl[i].w.pcw \in {"url", "get"}))
       => (dl[i].fin[a] /\ dl[i].polled[a])

\* C9 witness: the JSON of a name has been fetched, after both of its
\* artifacts were reported finalized.
C9_Witness ==
    \E i \in DOMAIN dl :
       /\ dl[i].get["json"]
       /\ dl[i].fin["file"]
       /\ dl[i].fin["json"]

\* C10: for every input file the PUT of its upload has completed before its
\* name is in job_params['files'] and before any finalized check,
\* download-URL request or GET for it or its .json sibling; and the
\* parameter file is written only when every upload of the batch is over.
C10_UploadBeforeUse ==
    /\ \A i \in DOMAIN up :
          input_files[i] \in Range(job_params.files) => up[i].put_done
    /\ \A i \in DOMAIN dl :
          (\E a \in Arts : dl[i].polled[a] \/ dl[i].req[a] \/ dl[i].get[a])
             => up[i].put_done
    /\ job_file # <<>> =>
          /\ Len(up) = Len(input_files)
          /\ \A i \in DOMAIN up : up[i].st = "done"

\* C11: a file whose upload failed is excluded from the rest of the run: its
\* name is not in job_params['files'] nor in the written parameter file, and
\* no finalized check, download-URL request or GET is issued by its
\* download task, for the file or for its .json sibling.
C11_FailedUploadExcluded ==
    \A i \in DOMAIN up : up[i].result = "raised" =>
       /\ input_files[i] \notin Range(job_params.files)
       /\ job_file # <<>> =>
             input_files[i] \notin Range(YamlFileNames(Load(job_file)))
       /\ i \in DOMAIN dl =>
             \A a \in Arts : ~dl[i].polled[a] /\ ~dl[i].req[a] /\ ~dl[i].get[a]

\* C12: job creation failure is fatal: when the create-job call fails (request
\* error, non-2xx, body without a job_id) the run ends in its error state, and
\* without a job nothing else ever happens: no client is built, no upload
\* task exists (no upload-URL request, no PUT), no parameter file is written
\* or uploaded, no download task exists and nothing is downloaded; no step
\* follows the failure.
C12_JobCreationFatal ==
    /\ job_id = "none" =>
          /\ pc \in {"create_job", "raised_create_job"}
          /\ input_files = <<>>
          /\ up = <<>>
          /\ job_params.files = <<>>
          /\ job_file = <<>>
          /\ dl = <<>>
          /\ downloaded = EmptyDict
    /\ pc = "raised_create_job" => (job_id = "none" /\ ~ENABLED Next)

\* C12 witness: the run has ended at the failed create-job call.
C12_Witness ==
    /\ pc = "raised_create_job"
    /\ job_id = "none"
    /\ up = <<>>

\* The operating system schedules every thread, and every HTTP call and every
\* sleep returns: the run takes a next step whenever it has one.
FairSpec == Spec /\ WF_vars(Next)

\* C13: partial success is not fatal: once job creation and the upload of the
\* parameter file have succeeded the run goes on to its normal end, whichever
\* uploads failed and whichever downloads timed out or failed; neither
\* submit_files nor download_results ever raises, so the run ends with an
\* unhandled exception only at the create-job call or at the upload of the
\* parameter file.
C13_PartialSuccessNotFatal ==
    /\ [](pc \in Raised => pc \in {"raised_create_job", "raised_submit_job"})
    /\ [](pc \in {"dl_enter", "dl_submit", "dl_collect"} => ENABLED Next)
    /\ (pc = "dl_enter") ~> (pc = "done")

\* C13 witness: the run has ended normally although one upload failed, one
\* download timed out and one download failed at a request.
C13_Witness ==
    /\ pc = "done"
    /\ \E i \in DOMAIN up : up[i].result = "raised"
    /\ \E i \in DOMAIN dl : dl[i].cause = "timeout"
    /\ \E i \in DOMAIN dl : dl[i].cause = "error"
    /\ downloaded = EmptyDict

\* The allow-list of extensions, and the comparison of two extensions that
\* takes a letter and its other case for the same.
AllowList ==
    {<<"w", "a", "v">>, <<"m", "p", "3">>, <<"f", "l", "a", "c">>,
     <<"o", "g", "g">>, <<"m", "4", "a">>, <<"y", "a", "m", "l">>}

SameLetter(a, b) ==
    a = b \/ \E k \in DOMAIN UpperChars : {a, b} = {UpperChars[k], LowerChars[k]}

SameIgnoringCase(x, y) ==
    Len(x) = Len(y) /\ \A k \in DOMAIN x : SameLetter(x[k], y[k])

\* The extension of a name: what follows its last dot.
Extension(n) == IF HasSuffix(n) THEN SubSeq(n, RFindDot(n) + 1, Len(n)) ELSE <<>>

\* The entry is a regular file with an extension of the allow-list.
Allowed(e) ==
    e.is_file /\ \E x \in AllowList : SameIgnoringCase(Extension(e.name), x)

AllowedNames(dir) == {e.name : e \in {d \in Range(dir) : Allowed(d)}}

\* The python client has read its input directory; the curl client has left
\* its upload loop.
PyParsed == pc \notin {"idle", "create_job", "raised_create_job", "init_client"}

ShLoopDone == sh.pc \in {"job_url", "job_put", "poll_next", "poll_test",
                         "poll_check", "poll_sleep", "dl_url", "dl_get", "done"}

\* The filter of the python client: its upload set is the allowed entries,
\* reading the directory raises nothing, and only names of the upload set
\* get an upload task or a place in job_params['files'].
PyFilter ==
    /\ PyParsed =>
          \A e \in Range(inputs_dir) : e.name \in Range(input_files) <=> Allowed(e)
    /\ pc = "init_client" => ENABLED InitClient
    /\ Len(up) <= Len(input_files)
    /\ Range(job_params.files) \subseteq AllowedNames(inputs_dir)

\* What holds of the curl client whatever the entries: only allowed entries
\* are in FILES, only names of FILES are PUT, and no entry ends the script.
ShFilter ==
    /\ Range(sh.FILES) \subseteq AllowedNames(inputs_dir)
    /\ sh.put \subseteq Range(sh.FILES)
    /\ sh.pc = "upload_loop" => ENABLED (ShNextEntry \/ ShEndUploads)

\* C14 as stated: in either client a directory entry is in the upload set
\* exactly if it is a regular file whose extension, compared without regard
\* to case, is on the allow-list; the other entries are skipped without
\* error, are never uploaded and never get into the files list.
C14_ExtensionFilter ==
    /\ PyFilter
    /\ ShFilter
    /\ ShLoopDone =>
          \A e \in Range(inputs_dir) : e.name \in Range(sh.FILES) <=> Allowed(e)

\* C14 as amended: the same, but in the curl client an allowed entry is in
\* the upload set exactly if its name does not start with a dot (the glob of
\* the upload loop does not yield hidden entries).
C14_ExtensionFilterVisible ==
    /\ PyFilter
    /\ ShFilter
    /\ ShLoopDone =>
          \A e \in Range(inputs_dir) :
             e.name \in Range(sh.FILES) <=> (Allowed(e) /\ e.name[1] # ".")

\* C14 witness: the curl client has left its upload loop over a directory of
\* two allowed entries, having taken the one with the upper-case extension
\* and not having been given the hidden one.
C14_Witness ==
    /\ ShLoopDone
    /\ Len(inputs_dir) = 2
    /\ Len(sh.FILES) = 1
    /\ Lower(sh.FILES[1]) # sh.FILES[1]
    /\ \E e \in Range(inputs_dir) : e.name[1] = "." /\ Allowed(e)

\* C15: in the curl client a download URL is requested, and a target fetched,
\* for an uploaded name or its .json sibling only after a finalized check for
\* the name answered exists=true; for a name whose polling timed out no
\* download URL is requested and nothing is fetched.
C15_CurlDownloadsAfterFinalized ==
    \A k \in DOMAIN sh.FILES : \A t \in {1, 2} :
       LET f == sh.FILES[k]
       IN  /\ <<f, t>> \in sh.asked \cup sh.got => f \in sh.fin
           /\ f \in sh.timed => <<f, t>> \notin sh.asked \cup sh.got

\* The loaded value v is the list of the strings of list.
SameList(list, v) ==
    /\ v.type = "list"
    /\ Len(v.val) = Len(list)
    /\ \A k \in DOMAIN list : v.val[k] = PyStr(list[k])

\* The loaded value data is a dict equivalent to the record rec.
SameRecord(rec, data) ==
    /\ data.type = "dict"
    /\ DOMAIN data.val = DOMAIN rec
    /\ SameList(rec.agents, data.val["agents"])
    /\ SameList(rec.files, data.val["files"])
    /\ "prefix" \in DOMAIN rec => data.val["prefix"] = PyStr(rec.prefix)

\* C16: the record main builds has the keys agents and files, and prefix
\* exactly if a non-empty prefix was given; agents is args.agents, in order,
\* prefix is args.prefix, files holds the names of the uploads collected so
\* far; and the parameter file written from it by submit_job, loaded again
\* by download_results, gives an equivalent record: the same agents, the same
\* files, the same presence and value of prefix.
C16_JobParamsRoundTrip ==
    /\ PyParsed =>
          /\ DOMAIN job_params =
                {"agents", "files"} \cup (IF args.prefix # <<>> THEN {"prefix"} ELSE {})
          /\ job_params.agents = args.agents
          /\ "prefix" \in DOMAIN job_params => job_params.prefix = args.prefix
          /\ Range(job_params.files) \subseteq Range(input_files)
          /\ \A i \in DOMAIN up :
                Count(job_params.files, input_files[i]) =
                   IF up[i].collected /\ up[i].result = "ok" THEN 1 ELSE 0
    /\ pc = "dl_submit" => SameRecord(job_params, dr.job_data)

\* C16 witness: a record with a prefix and two files, one agent of which
\* reads as a number and one as a boolean, has been written and loaded again.
C16_Witness ==
    /\ pc = "dl_submit"
    /\ "prefix" \in DOMAIN job_params
    /\ Len(job_params.files) = 2
    /\ job_params.agents = <<<<"1", "2">>, <<"n", "o">>>>
    /\ dr.job_data.type = "dict"

\* The names a parameter file lists under a key: the texts of the "- item"
\* lines that follow its "key:" line.
ListedUnder(doc, key) ==
    LET at == {k \in DOMAIN doc : doc[k].kind = "key" /\ doc[k].key = key}
    IN  IF at = {} THEN <<>>
        ELSE LET k0 == CHOOSE k \in at : TRUE
                 n == Cardinality({j \in 1..(Len(doc) - k0) :
                                     \A m \in 1..j : doc[k0 + m].kind = "item"})
             IN  [j \in 1..n |-> doc[k0 + j].text]

\* The file at the yaml path cannot be read, or its text cannot be parsed.
Unreadable(file) == ~file.exists \/ NotYaml \in Range(file.text)

\* The file at the yaml path holds a mapping whose files key is absent or a
\* list.
ListsFiles(file) ==
    /\ ~Unreadable(file)
    /\ file.text # <<>>
    /\ \A k \in DOMAIN file.text : file.text[k].key = "files" => file.text[k].kind # "pair"

\* C17: once download_results has settled its batch: with a yaml path naming
\* a readable parameter file the batch is exactly the names under its files
\* key, in order, whatever input_files holds; with a yaml path whose file
\* cannot be read or parsed the batch is empty, no download task (so no
\* finalized check and no download) ever exists, nothing is raised and the
\* dict returned is empty; without a yaml path the batch is exactly the names
\* of input_files.  Every download task is for a name of the batch.
C17_DownloadBatchSource ==
    pc # "dl_enter" =>
       /\ Len(dl) <= Len(file_names)
       /\ dr.yaml = "None" => file_names = input_files
       /\ dr.yaml = "path" /\ ListsFiles(dr.file) =>
             file_names = ListedUnder(dr.file.text, "files")
       /\ dr.yaml = "path" /\ Unreadable(dr.file) =>
             /\ file_names = <<>>
             /\ dl = <<>>
             /\ downloaded = EmptyDict
             /\ pc \notin Raised
             /\ pc # "done" => ENABLED DownloadNext

\* C17 witness: a call with the path of a file listing two names, neither of
\* them in input_files, has returned both result pairs.
C17_Witness ==
    /\ pc = "done"
    /\ dr.yaml = "path"
    /\ file_names = <<<<"b", ".", "W", "A", "V">>, <<"a", ".", "m", "p", "3">>>>
    /\ Range(file_names) \cap Range(input_files) = {}
    /\ Cardinality(DOMAIN downloaded) = 2

\* The local paths task i of the download batch has written so far, and the
\* one it is writing (its GET is under way).
WrittenBy(i) == {Dest(ArtName(file_names[i], a)) : a \in {b \in Arts : dl[i].saved[b]}}

WritingNow(i) ==
    IF dl[i].st = "running" /\ dl[i].w.pcw = "get"
    THEN {Dest(ArtName(file_names[i], dl[i].art))}
    ELSE {}

\* C18: for any two distinct names of one download batch, the local paths
\* their tasks write (the file and its <stem>.json) are disjoint, and no two
\* workers are ever writing the same local path at the same time.
C18_ArtifactsDoNotCollide ==
    \A i, j \in DOMAIN dl :
       file_names[i] # file_names[j] =>
          /\ WrittenBy(i) \cap WrittenBy(j) = {}
          /\ WritingNow(i) \cap WritingNow(j) = {}

\* C19: inside download_pair the wait for <stem>.json is entered, and the
\* JSON first polled, only with the main file written; each wait counts its
\* timeout from its own start (the first check of an artifact is made at
\* elapsed time zero of its window, whatever the other artifact took); and a
\* task whose main file timed out or failed is over, without a finalized
\* check, a download-URL request or a GET for the JSON.
C19_PairSequencing ==
    \A i \in DOMAIN dl :
       /\ (dl[i].art = "json" \/ dl[i].polled["json"] \/ dl[i].req["json"]
              \/ dl[i].get["json"]) => dl[i].saved["file"]
       /\ (dl[i].st = "running" /\ dl[i].w.pcw \in {"check", "sleep"}) =>
             /\ dl[i].w.start_time <= dl[i].w.now
             /\ dl[i].w.now - dl[i].w.start_time < timeout
             /\ (dl[i].w.pcw = "check" /\ ~dl[i].polled[dl[i].art]) =>
                   dl[i].w.now = dl[i].w.start_time
       /\ (dl[i].cause \in {"timeout", "error"} /\ ~dl[i].saved["file"]) =>
             /\ dl[i].st = "done"
             /\ dl[i].art = "file"
             /\ ~dl[i].polled["json"] /\ ~dl[i].req["json"] /\ ~dl[i].get["json"]

\* C19 witness: the main file took one sleep; the JSON, polled after it was
\* written, is at its second check, at a clock reading that is past the
\* timeout counted from the start of the task.
C19_Witness ==
    \E i \in DOMAIN dl :
       /\ dl[i].st = "running"
       /\ dl[i].art = "json"
       /\ dl[i].saved["file"]
       /\ dl[i].polled["json"]
       /\ dl[i].w.pcw = "check"
       /\ dl[i].w.start_time = 1
       /\ dl[i].w.now >= timeout

\* The terminal outcomes of a download task: both artifacts downloaded, timed
\* out, failed.
Outcomes(t) ==
    {o \in {"downloaded", "timed_out", "failed"} :
        \/ o = "downloaded" /\ t.pair /\ t.saved["file"] /\ t.saved["json"]
        \/ o = "timed_out" /\ t.cause = "timeout"
        \/ o = "failed" /\ t.cause = "error"}

\* download_results has returned: every name of the batch had its task, and
\* every task is over, collected, and has exactly one terminal outcome.
AllTerminal ==
    /\ Len(dl) = Len(file_names)
    /\ \A i \in DOMAIN dl :
          /\ dl[i].st = "done"
          /\ dl[i].collected
          /\ Cardinality(Outcomes(dl[i])) = 1

\* A task that is over keeps its outcome: it changes no more, but for being
\* collected.
OutcomeKept ==
    \A i \in DOMAIN dl :
       dl[i].st = "done" => dl'[i] = [dl[i] EXCEPT !.collected = dl'[i].collected]

\* C21: the download batch always terminates: for every batch, of no name, of
\* a few, or of more names than there are workers, with a finite timeout and
\* a positive interval and every HTTP call returning, download_results can
\* take a step until it has returned, it does return, without raising, and
\* then every item has reached exactly one terminal outcome (both artifacts
\* downloaded, timed out, failed), which it keeps; also when no file is ever
\* reported finalized.
C21_BatchTerminates ==
    /\ [](pc \in {"dl_enter", "dl_submit", "dl_collect"} => ENABLED BatchNext)
    /\ [](pc \notin Raised)
    /\ [](pc = "done" => AllTerminal)
    /\ [][OutcomeKept]_vars
    /\ <>(pc = "done")

\* C21 witness: a batch of more names than workers, none of them ever
\* reported finalized, has returned: every task polled and timed out.
C21_Witness ==
    /\ pc = "done"
    /\ Len(dl) > MaxWorkers
    /\ \A i \in DOMAIN dl : dl[i].polled["file"] /\ dl[i].cause = "timeout"

\* --------------------------------------------------------------- PoolSpec
\* The executor of submit_files (lines 268-277) or of download_results (lines
\* 438-442) with pool.n work items, up to more than there are workers.  A task
\* (submit_file, download_pair) is taken by a worker and later returns or
\* raises; what it does in between is the subject of Spec.
NewTask == [st |-> "queued", raised |-> FALSE, collected |-> FALSE]

PoolInit ==
    /\ MainIdle
    /\ inputs_dir = <<>>
    /\ sh = ShIdle
    /\ timeout = 0
    /\ interval = 0
    /\ wf = NoWait
    /\ hist = NoHist
    /\ \E k \in {"upload", "download"}, n \in 0..MaxItems :
          pool = [kind |-> k, n |-> n, phase |-> "submit", tasks |-> <<>>]

poolUnchanged == <<pc, input_files, timeout, interval, job_params, job_file,
                   up, dl, downloaded, wf, hist, job_id, inputs_dir, sh, args, dr>>

\* Lines 269, 439: executor.submit, one item at a time.
PoolSubmit ==
    /\ pool.phase = "submit"
    /\ Len(pool.tasks) < pool.n
    /\ pool' = [pool EXCEPT !.tasks = Append(@, NewTask)]
    /\ UNCHANGED poolUnchanged

\* Lines 270, 440: every item is submitted; the as_completed loop starts.
PoolBeginCollect ==
    /\ pool.phase = "submit"
    /\ Len(pool.tasks) = pool.n
    /\ pool' = [pool EXCEPT !.phase = "collect"]
    /\ UNCHANGED poolUnchanged

\* A worker thread takes the next queued item.
PoolStart(i) ==
    /\ pool.phase \in {"submit", "collect"}
    /\ NextQueued(pool.tasks, i)
    /\ WorkerFree(Running(pool.tasks))
    /\ pool' = [pool EXCEPT !.tasks[i].st = "running"]
    /\ UNCHANGED poolUnchanged

\* The task of item i returns, or raises (submit_file on a failed request;
\* download_pair catches what download_file raises and returns its pair).
PoolFinish(i) ==
    /\ i \in DOMAIN pool.tasks
    /\ pool.tasks[i].st = "running"
    /\ \E r \in BOOLEAN :
          /\ r => pool.kind = "upload"
          /\ pool' = [pool EXCEPT !.tasks[i].st = "done", !.tasks[i].raised = r]
    /\ UNCHANGED poolUnchanged

\* Lines 270-277, 440-442: as_completed yields the finished future of item i.
PoolCollect(i) ==
    /\ pool.phase = "collect"
    /\ i \in DOMAIN pool.tasks
    /\ pool.tasks[i].st = "done"
    /\ ~pool.tasks[i].collected
    /\ pool' = [pool EXCEPT !.tasks[i].collected = TRUE]
    /\ UNCHANGED poolUnchanged

\* The end of the with block: the loop is over and the executor shut down.
PoolShutdown ==
    /\ pool.phase = "collect"
    /\ AllCollected(pool.tasks)
    /\ pool' = [pool EXCEPT !.phase = "closed"]
    /\ UNCHANGED poolUnchanged

PoolItems == 1..MaxItems

PoolNext ==
    \/ PoolSubmit
    \/ PoolBeginCollect
    \/ \E i \in PoolItems : PoolStart(i)
    \/ \E i \in PoolItems : PoolFinish(i)
    \/ \E i \in PoolItems : PoolCollect(i)
    \/ PoolShutdown

PoolSpec == PoolInit /\ [][PoolNext]_vars

\* The operating system schedules every thread, and every HTTP call and every
\* sleep of a task returns: a worker that can take an item does, a running
\* task ends, and the main thread goes on submitting.
FairPoolSpec ==
    /\ PoolSpec
    /\ WF_vars(PoolSubmit)
    /\ WF_vars(\E i \in PoolItems : PoolStart(i))
    /\ \A i \in PoolItems : WF_vars(PoolFinish(i))

\* Item i has been handed to the executor; its task has run to its end.
Submitted(i) == i \in DOMAIN pool.tasks

Executed(i) == i \in DOMAIN pool.tasks /\ pool.tasks[i].st = "done"

\* C4: whatever the number of work items, in the upload batch and in the
\* download batch, at most 5 items are being executed by a worker at any
\* instant, and every item submitted to the executor is eventually executed
\* to its end.
C4_BoundedConcurrency ==
    /\ [](Running(pool.tasks) <= 5)
    /\ \A i \in PoolItems : Submitted(i) ~> Executed(i)

\* C4 witness: five items are running and a sixth waits in the queue.
C4_Witness ==
    /\ Running(pool.tasks) = 5
    /\ \E i \in DOMAIN pool.tasks : pool.tasks[i].st = "queued"

====
